---------------------------- MODULE Spec2Model ----------------------------
(***************************************************************************)
(* A model of scripts/generate_agents_md.py: the aggregator that reads the *)
(* markdown files of docs/code-howtos, strips their frontmatter, demotes   *)
(* their headers and writes one titled section per file into AGENTS.md.    *)
(*                                                                         *)
(* A Python str is modelled as a sequence of one-character strings, so     *)
(* that split, join, startswith, title and the sort order are computed     *)
(* character by character, as the interpreter computes them.               *)
(***************************************************************************)
EXTENDS Integers, Sequences, FiniteSets, TLC

VARIABLES
    dirExists,        \* docs/code-howtos exists
    dir,              \* its entries: name -> [content, readable, decodable]
    outWritable,      \* AGENTS.md can be opened for writing
    outExists,        \* AGENTS.md exists on disk
    fs_out,           \* the text of AGENTS.md on disk
    wbuf,             \* the text in the buffer of outfile's BufferedWriter
    pending,          \* the text pending in outfile's TextIOWrapper
    diskLimit,        \* the size AGENTS.md cannot grow past, or NoLimit
    bufSize,          \* the size of the buffer of outfile's BufferedWriter
    outOpen,          \* the handle `outfile` is open
    inOpen,           \* the names whose handle `infile` is open
    pc,               \* the position of main()
    files,            \* what the for loop of line 20 has still to visit
    filename,         \* the loop variable of line 20
    raw,              \* what infile.read() returned
    content,          \* the local `content`
    title,            \* the local `title`
    adjusted_content, \* the local `adjusted_content`
    sections,         \* history: the filenames a heading was written for, this run
    prior,            \* history: AGENTS.md as it was when this run began
    outOpens,         \* history: how often this run opened `outfile`
    runs,             \* history: the number of runs of main() begun
    results,          \* history: one record per ended run
    err               \* the step whose error ended the run, or "none"

vars == <<dirExists, dir, outWritable, outExists, fs_out, wbuf, pending,
          diskLimit, bufSize, outOpen, inOpen, pc,
          files, filename, raw, content, title, adjusted_content, sections,
          prior, outOpens, runs, results, err>>

---------------------------------------------------------------------------
(* Bounds of the model.                                                    *)

\* main() is run at most this many times in a row
MaxRuns == 2
\* a source directory holds at most this many entries
MaxEntries == 3
\* a file content is the concatenation of at most this many tokens
MaxTokens == 6
\* a filename stem is the concatenation of at most this many characters
MaxStem == 3

---------------------------------------------------------------------------
(* Constants of the interpreter.                                           *)

\* the chunk size of a TextIOWrapper, and io.DEFAULT_BUFFER_SIZE
ChunkSize == 8192
\* resource.RLIM_INFINITY: the size of AGENTS.md is not limited
NoLimit == -1

---------------------------------------------------------------------------
(* Characters.                                                             *)

UpperCase == <<"A","B","C","D","E","F","G","H","I","J","K","L","M",
               "N","O","P","Q","R","S","T","U","V","W","X","Y","Z">>
LowerCase == <<"a","b","c","d","e","f","g","h","i","j","k","l","m",
               "n","o","p","q","r","s","t","u","v","w","x","y","z">>
Digits == <<"0","1","2","3","4","5","6","7","8","9">>

Range(f) == {f[i] : i \in DOMAIN f}
IndexOf(c, s) == CHOOSE i \in DOMAIN s : s[i] = c

isupper(c) == c \in Range(UpperCase)
islower(c) == c \in Range(LowerCase)
\* a cased character, as str.title() sees it
iscased(c) == isupper(c) \/ islower(c)
upper(c) == IF islower(c) THEN UpperCase[IndexOf(c, LowerCase)] ELSE c
lower(c) == IF isupper(c) THEN LowerCase[IndexOf(c, UpperCase)] ELSE c

\* the code point of a character, which orders str values
ord(c) ==
    IF isupper(c) THEN 64 + IndexOf(c, UpperCase)
    ELSE IF islower(c) THEN 96 + IndexOf(c, LowerCase)
    ELSE IF c \in Range(Digits) THEN 47 + IndexOf(c, Digits)
    ELSE CASE c = "\n" -> 10
           [] c = "\r" -> 13
           [] c = " "  -> 32
           [] c = "#"  -> 35
           [] c = "-"  -> 45
           [] c = "."  -> 46
           [] c = ":"  -> 58
           [] c = "_"  -> 95

---------------------------------------------------------------------------
(* str operations.                                                         *)

NL == <<"\n">>
Hash == <<"#">>
Delim == <<"-","-","-">>
MdExt == <<".","m","d">>
IndexName == <<"i","n","d","e","x",".","m","d">>

startswith(s, p) == Len(s) >= Len(p) /\ SubSeq(s, 1, Len(p)) = p
endswith(s, p) == Len(s) >= Len(p) /\ SubSeq(s, Len(s) - Len(p) + 1, Len(s)) = p

\* str.find from position `from` (1-based); 0 when sep does not occur
find(s, sep, from) ==
    LET hits == {i \in from..(Len(s) - Len(sep) + 1) :
                    SubSeq(s, i, i + Len(sep) - 1) = sep}
    IN IF hits = {} THEN 0 ELSE CHOOSE i \in hits : \A j \in hits : i <= j

\* str.split(sep): the parts between the occurrences of sep, found left to
\* right without overlap
RECURSIVE split(_, _)
split(s, sep) ==
    LET i == find(s, sep, 1)
    IN IF i = 0 THEN <<s>>
       ELSE <<SubSeq(s, 1, i - 1)>> \o split(SubSeq(s, i + Len(sep), Len(s)), sep)

\* sep.join(parts)
RECURSIVE join(_, _)
join(sep, parts) ==
    IF parts = <<>> THEN <<>>
    ELSE IF Len(parts) = 1 THEN parts[1]
    ELSE parts[1] \o sep \o join(sep, Tail(parts))

\* str.replace of one character by another
replace(s, old, new) == [i \in DOMAIN s |-> IF s[i] = old THEN new ELSE s[i]]

\* str.title(): a cased character is uppercased when the character before
\* it is not cased, and lowercased when it is
str_title(s) ==
    [i \in DOMAIN s |->
        IF ~iscased(s[i]) THEN s[i]
        ELSE IF i > 1 /\ iscased(s[i - 1]) THEN lower(s[i])
        ELSE upper(s[i])]

\* os.path.splitext(p)[0] of a name without a path separator: the name up to
\* its last dot, unless only dots precede that dot
splitext_root(p) ==
    LET dots == {i \in DOMAIN p : p[i] = "."}
        dotIndex == IF dots = {} THEN 0
                    ELSE CHOOSE i \in dots : \A j \in dots : j <= i
    IN IF dotIndex > 0 /\ \E k \in 1..(dotIndex - 1) : p[k] # "."
       THEN SubSeq(p, 1, dotIndex - 1)
       ELSE p

\* str < str: the order sorted() uses
str_lt(a, b) ==
    \E i \in 1..Len(b) :
        /\ i <= Len(a) + 1
        /\ SubSeq(a, 1, i - 1) = SubSeq(b, 1, i - 1)
        /\ (i = Len(a) + 1 \/ ord(a[i]) < ord(b[i]))

RECURSIVE insert_sorted(_, _)
insert_sorted(x, s) ==
    IF s = <<>> THEN <<x>>
    ELSE IF str_lt(x, Head(s)) THEN <<x>> \o s
    ELSE <<Head(s)>> \o insert_sorted(x, Tail(s))

\* sorted(list of str)
RECURSIVE sorted(_)
sorted(s) == IF s = <<>> THEN <<>> ELSE insert_sorted(Head(s), sorted(Tail(s)))

\* the text a file opened with mode "r" yields: universal newlines turn
\* "\r\n" and a lone "\r" into "\n"
RECURSIVE read_text(_)
read_text(bytes) ==
    IF \A i \in DOMAIN bytes : bytes[i] # "\r" THEN bytes
    ELSE IF Head(bytes) = "\r"
         THEN IF Len(bytes) > 1 /\ bytes[2] = "\n"
              THEN NL \o read_text(SubSeq(bytes, 3, Len(bytes)))
              ELSE NL \o read_text(Tail(bytes))
    ELSE <<Head(bytes)>> \o read_text(Tail(bytes))

---------------------------------------------------------------------------
(* The functions of the script.                                            *)

\* a variant of adjust_header_levels that tests `"#" in line`
adjust_header_levels_any_hash(c) ==
    LET lines == split(c, NL)
        new_lines == [i \in DOMAIN lines |->
                        IF \E k \in DOMAIN lines[i] : lines[i][k] = "#"
                        THEN Hash \o lines[i]
                        ELSE lines[i]]
    IN join(NL, new_lines)

\* adjust_header_levels(content), lines 5-13
adjust_header_levels(c) ==
    LET lines == split(c, NL)
        new_lines == [i \in DOMAIN lines |->
                        IF startswith(lines[i], Hash) THEN Hash \o lines[i]
                        ELSE lines[i]]
    IN join(NL, new_lines)

\* a variant of the frontmatter skip that keeps parts[2] alone
skip_frontmatter_third_part(c) ==
    IF startswith(c, Delim)
    THEN LET parts == split(c, Delim)
         IN IF Len(parts) > 2 THEN parts[3] ELSE c
    ELSE c

\* the frontmatter skip of lines 27-30
skip_frontmatter(c) ==
    IF startswith(c, Delim)
    THEN LET parts == split(c, Delim)
         IN IF Len(parts) > 2 THEN join(Delim, SubSeq(parts, 3, Len(parts)))
            ELSE c
    ELSE c

\* a variant of the title that capitalizes without lowercasing the rest
make_title_keep_case(name) ==
    LET s == replace(splitext_root(name), "-", " ")
    IN [i \in DOMAIN s |->
          IF iscased(s[i]) /\ ~(i > 1 /\ iscased(s[i - 1])) THEN upper(s[i])
          ELSE s[i]]

\* the section title of line 33
make_title(name) == str_title(replace(splitext_root(name), "-", " "))

\* the text written by line 34
heading(t) == <<"#","#"," ">> \o t \o <<"\n","\n">>

\* a variant of the filter without the test for index.md
included_any_md(name) == endswith(name, MdExt)

\* the filter of line 21
included(name) == endswith(name, MdExt) /\ name # IndexName

\* a variant of the open of line 19 with mode "a"
open_a(old) == old

\* mode "w" of line 19: the file is created or truncated
open_w(old) == <<>>

\* s without its first n characters
Drop(s, n) == SubSeq(s, n + 1, Len(s))

\* write(2) on AGENTS.md, which is at most `limit` characters long (NoLimit:
\* of any length): at the limit it fails, below it it writes what fits.
\* n is the number of characters written, -1 for an OSError
raw_write(disk, data, limit) ==
    IF limit = NoLimit \/ Len(disk) + Len(data) <= limit
    THEN [disk |-> disk \o data, n |-> Len(data)]
    ELSE IF Len(disk) >= limit
    THEN [disk |-> disk, n |-> -1]
    ELSE [disk |-> disk \o SubSeq(data, 1, limit - Len(disk)),
          n |-> limit - Len(disk)]

\* BufferedWriter.flush: raw writes until the buffer is empty or one fails
RECURSIVE buffered_flush(_, _, _)
buffered_flush(disk, buf, limit) ==
    IF buf = <<>> THEN [disk |-> disk, wbuf |-> buf, ok |-> TRUE]
    ELSE LET r == raw_write(disk, buf, limit)
         IN IF r.n < 0 THEN [disk |-> disk, wbuf |-> buf, ok |-> FALSE]
            ELSE buffered_flush(r.disk, Drop(buf, r.n), limit)

\* the loop of BufferedWriter.write on data that did not fit the buffer: raw
\* writes while more than a buffer is left, the rest is buffered
RECURSIVE buffered_write_through(_, _, _, _)
buffered_write_through(disk, data, limit, size) ==
    IF Len(data) <= size THEN [disk |-> disk, wbuf |-> data, ok |-> TRUE]
    ELSE LET r == raw_write(disk, data, limit)
         IN IF r.n < 0 THEN [disk |-> disk, wbuf |-> <<>>, ok |-> FALSE]
            ELSE buffered_write_through(r.disk, Drop(data, r.n), limit, size)

\* BufferedWriter.write(data): data that fits the buffer is only buffered;
\* otherwise the buffer is flushed and the data written through
buffered_write(disk, buf, data, limit, size) ==
    IF Len(data) <= size - Len(buf)
    THEN [disk |-> disk, wbuf |-> buf \o data, ok |-> TRUE]
    ELSE LET f == buffered_flush(disk, buf, limit)
         IN IF ~f.ok THEN f
            ELSE buffered_write_through(f.disk, data, limit, size)

\* outfile.write(text) of lines 34, 38 and 39, on the state
\* st = [disk, wbuf, pending] of the file and its two buffers: TextIOWrapper
\* keeps the text pending, hands the pending text down before it would grow
\* past ChunkSize, and again once it has reached ChunkSize
write(st, text, limit, size) ==
    LET over == st.pending # <<>> /\ Len(st.pending) + Len(text) > ChunkSize
        first == IF over
                 THEN buffered_write(st.disk, st.wbuf, st.pending, limit, size)
                 ELSE [disk |-> st.disk, wbuf |-> st.wbuf, ok |-> TRUE]
        pend == IF over THEN text ELSE st.pending \o text
    IN IF ~first.ok
       THEN [disk |-> first.disk, wbuf |-> first.wbuf, pending |-> <<>>,
             ok |-> FALSE]
       ELSE IF Len(pend) >= ChunkSize
       THEN LET second == buffered_write(first.disk, first.wbuf, pend, limit, size)
            IN [disk |-> second.disk, wbuf |-> second.wbuf, pending |-> <<>>,
                ok |-> second.ok]
       ELSE [disk |-> first.disk, wbuf |-> first.wbuf, pending |-> pend,
             ok |-> TRUE]

\* outfile.close(), which the exit of the `with` of line 19 calls: the
\* pending text is handed down, the buffer is flushed (also when handing
\* down failed), and the file is closed whatever failed
close(st, limit, size) ==
    LET first == IF st.pending = <<>>
                 THEN [disk |-> st.disk, wbuf |-> st.wbuf, ok |-> TRUE]
                 ELSE buffered_write(st.disk, st.wbuf, st.pending, limit, size)
        second == buffered_flush(first.disk, first.wbuf, limit)
    IN [disk |-> second.disk, wbuf |-> <<>>, pending |-> <<>>,
        ok |-> first.ok /\ second.ok]

\* a variant of line 19 without `with`: an exception leaves outfile open
outfile_leak(isOpen) == isOpen

\* leaving the `with` of line 19, normally or by an exception: outfile is closed
outfile_exit(isOpen) == FALSE

\* leaving the `with` of line 23, normally or by an exception: infile is closed
infile_exit(open) == {}

\* os.listdir(docs_path): the names, in an order the filesystem chooses
listings(d) ==
    LET names == DOMAIN d
        n == Cardinality(names)
    IN {l \in [1..n -> names] : \A i, j \in 1..n : i # j => l[i] # l[j]}

---------------------------------------------------------------------------
(* The inputs of the main specification: directories over a pool of files. *)

Text(c) == [content |-> c, readable |-> TRUE, decodable |-> TRUE]
\* an entry open() fails on, such as a subdirectory named like a document
Unreadable == [content |-> <<>>, readable |-> FALSE, decodable |-> FALSE]
\* a file read() fails on: its bytes are not text in the default encoding
Undecodable == [content |-> <<>>, readable |-> TRUE, decodable |-> FALSE]

ADoc == <<"a","-","d","o","c",".","m","d">>
BDoc == <<"b","-","d","o","c",".","m","d">>
AMd == <<"a",".","m","d">>
UpperBMd == <<"B",".","m","d">>
NotesTxt == <<"n","o","t","e","s",".","t","x","t">>
XMd == <<"x",".","m","d">>
YMd == <<"y",".","m","d">>
BigMd == <<"B","i","g",".","m","d">>

Pool ==
    (ADoc :> Text(<<"#"," ","A","\n","h","e","l","l","o">>))
 @@ (BDoc :> Text(<<"-","-","-","\n","t","i","t","l","e",":"," ","x","\n",
                    "-","-","-","\n","#"," ","B","\n","w","o","r","l","d">>))
 @@ (IndexName :> Text(<<"#"," ","I">>))
 @@ (AMd :> Text(<<"a","\r","\n","#","#","b">>))
 @@ (UpperBMd :> Text(<<"-","-","-","\n","#","c">>))
 @@ (NotesTxt :> Text(<<"#"," ","n">>))
 @@ (XMd :> Unreadable)
 @@ (YMd :> Undecodable)

Dirs ==
    {[n \in S |-> Pool[n]] :
        S \in {T \in SUBSET DOMAIN Pool : Cardinality(T) <= MaxEntries}}

NoFile == [exists |-> FALSE, text |-> <<>>]
OldFile == [exists |-> TRUE, text |-> <<"o","l","d","\n">>]
PriorOutputs == {NoFile, OldFile}

\* the sizes AGENTS.md may grow to: any, or a limit (RLIMIT_FSIZE, a quota, a
\* full disk) inside a heading or at the end of a section
DiskLimits == {NoLimit, 5, 22}

\* the buffer of outfile is as large as st_blksize of AGENTS.md says
BufferSizes == {ChunkSize \div 2, ChunkSize}

\* directories with a file about as long as the buffers of outfile: the text
\* pending reaches ChunkSize in the write of the next heading, of the
\* separator, of the content
BigText(n) == [i \in 1..n |-> "h"]
BigSizes == {ChunkSize - 15, ChunkSize - 10, ChunkSize + 808}
BigDirs == {(BigMd :> Text(BigText(n))) @@ (ADoc :> Pool[ADoc]) : n \in BigSizes}
\* no limit, or one inside a heading or inside the long text
BigDiskLimits == {NoLimit, 5, ChunkSize + 108}

---------------------------------------------------------------------------
(* The inputs of the text specification: one file, its name or its content *)
(* drawn from every string within the bounds.                              *)

Tokens == {Delim, NL, Hash, <<"a">>, <<"-">>}

RECURSIVE Concats(_, _)
Concats(alphabet, n) ==
    IF n = 0 THEN {<<>>}
    ELSE LET shorter == Concats(alphabet, n - 1)
         IN shorter \cup {s \o t : s \in shorter, t \in alphabet}

TextContents == Concats(Tokens, MaxTokens)

StemChars == {<<"a">>, <<"B">>, <<"-">>, <<"1">>, <<".">>}
Extensions == {MdExt, <<".","t","x","t">>}
TextNames ==
    {s \o e : s \in Concats(StemChars, MaxStem), e \in Extensions} \cup {IndexName}

TextDirs ==
    {(n :> Text(<<"#","a">>)) : n \in TextNames}
    \cup {(AMd :> Text(c)) : c \in TextContents}

---------------------------------------------------------------------------
(* main(), lines 15-39.                                                    *)

\* what the run does not change: the directory and the limits of the output
env == <<dirExists, dir, outWritable, diskLimit, bufSize>>
\* the locals of the loop body
locals == <<raw, content, title, adjusted_content>>
\* AGENTS.md and the two buffers of outfile
io == [disk |-> fs_out, wbuf |-> wbuf, pending |-> pending]

Locals(d, ex, w, p, lim, size) ==
    /\ dirExists = ex
    /\ dir = d
    /\ outWritable = w
    /\ diskLimit = lim
    /\ bufSize = size
    /\ outExists = p.exists
    /\ fs_out = p.text
    /\ wbuf = <<>>
    /\ pending = <<>>
    /\ outOpen = FALSE
    /\ inOpen = {}
    /\ pc = "start"
    /\ files = <<>>
    /\ filename = <<>>
    /\ raw = <<>>
    /\ content = <<>>
    /\ title = <<>>
    /\ adjusted_content = <<>>
    /\ sections = <<>>
    /\ prior = p
    /\ outOpens = 0
    /\ runs = 1
    /\ results = <<>>
    /\ err = "none"

InitSmall ==
    \E d \in Dirs, ex \in BOOLEAN, w \in BOOLEAN, p \in PriorOutputs,
       lim \in DiskLimits :
        /\ (~ex => d = <<>>)
        /\ (~w => lim = NoLimit)
        /\ Locals(d, ex, w, p, lim, ChunkSize)

InitBig ==
    \E d \in BigDirs, lim \in BigDiskLimits, size \in BufferSizes :
        Locals(d, TRUE, TRUE, OldFile, lim, size)

Init == InitSmall \/ InitBig

InitText == \E d \in TextDirs : Locals(d, TRUE, TRUE, NoFile, NoLimit, ChunkSize)

Outcome(status, step) ==
    [status |-> status, step |-> step, before |-> prior,
     exists |-> outExists', text |-> fs_out']

\* the text on disk and in the buffers becomes that of r
Becomes(r) ==
    /\ fs_out' = r.disk
    /\ wbuf' = r.wbuf
    /\ pending' = r.pending

\* an exception raised at `step` leaves main() through the `with` blocks it is
\* inside of: infile is closed, and outfile.close() flushes what it can
Raise(step, after) ==
    /\ pc' = "failed"
    /\ err' = step
    /\ inOpen' = infile_exit(inOpen)
    /\ outOpen' = outfile_exit(outOpen)
    /\ Becomes(close(after, diskLimit, bufSize))
    /\ UNCHANGED outExists
    /\ results' = Append(results, Outcome("failed", step))

\* line 19: open(output_file, "w")
OpenOutput ==
    /\ pc = "start"
    /\ outWritable
    /\ outExists' = TRUE
    /\ fs_out' = open_w(fs_out)
    /\ outOpen' = TRUE
    /\ outOpens' = outOpens + 1
    /\ pc' = "listdir"
    /\ UNCHANGED <<env, locals, wbuf, pending, inOpen, files, filename,
                   sections, prior, runs, results, err>>

\* line 19: open(output_file, "w") raises OSError; there is no handle to close
OpenOutputFail ==
    /\ pc = "start"
    /\ ~outWritable
    /\ pc' = "failed"
    /\ err' = "open_output"
    /\ UNCHANGED <<outExists, fs_out>>
    /\ results' = Append(results, Outcome("failed", "open_output"))
    /\ UNCHANGED <<env, locals, wbuf, pending, outOpen,
                   inOpen, files, filename, sections, prior, outOpens, runs>>

\* line 20: sorted(os.listdir(docs_path))
ListDir ==
    /\ pc = "listdir"
    /\ dirExists
    /\ \E l \in listings(dir) : files' = sorted(l)
    /\ pc' = "loop"
    /\ UNCHANGED <<env, locals, outExists, fs_out, wbuf, pending, outOpen,
                   inOpen, filename, sections, prior, outOpens, runs, results,
                   err>>

\* line 20: os.listdir(docs_path) raises FileNotFoundError
ListDirFail ==
    /\ pc = "listdir"
    /\ ~dirExists
    /\ Raise("listdir", io)
    /\ UNCHANGED <<env, locals, files, filename, sections, prior, outOpens,
                   runs>>

\* lines 20-21: the next filename passes the filter
Select ==
    /\ pc = "loop"
    /\ files # <<>>
    /\ included(Head(files))
    /\ filename' = Head(files)
    /\ files' = Tail(files)
    /\ pc' = "open_in"
    /\ UNCHANGED <<env, locals, outExists, fs_out, wbuf, pending, outOpen,
                   inOpen, sections, prior, outOpens, runs, results, err>>

\* lines 20-21: the next filename does not pass the filter
Skip ==
    /\ pc = "loop"
    /\ files # <<>>
    /\ ~included(Head(files))
    /\ filename' = Head(files)
    /\ files' = Tail(files)
    /\ UNCHANGED <<env, locals, outExists, fs_out, wbuf, pending, outOpen,
                   inOpen, pc, sections, prior, outOpens, runs, results, err>>

\* lines 22-23: open(filepath, "r")
OpenInput ==
    /\ pc = "open_in"
    /\ dir[filename].readable
    /\ inOpen' = inOpen \cup {filename}
    /\ pc' = "read"
    /\ UNCHANGED <<env, locals, outExists, fs_out, wbuf, pending, outOpen,
                   files, filename, sections, prior, outOpens, runs, results,
                   err>>

\* lines 22-23: open(filepath, "r") raises OSError
OpenInputFail ==
    /\ pc = "open_in"
    /\ ~dir[filename].readable
    /\ Raise("open_input", io)
    /\ UNCHANGED <<env, locals, files, filename, sections, prior, outOpens,
                   runs>>

\* line 24: content = infile.read()
Read ==
    /\ pc = "read"
    /\ dir[filename].decodable
    /\ raw' = read_text(dir[filename].content)
    /\ content' = raw'
    /\ pc' = "frontmatter"
    /\ UNCHANGED <<env, outExists, fs_out, wbuf, pending, outOpen, inOpen,
                   files, filename, title, adjusted_content, sections, prior,
                   outOpens, runs, results, err>>

\* line 24: infile.read() raises
ReadFail ==
    /\ pc = "read"
    /\ ~dir[filename].decodable
    /\ Raise("read", io)
    /\ UNCHANGED <<env, locals, files, filename, sections, prior, outOpens,
                   runs>>

\* lines 27-30
SkipFrontmatter ==
    /\ pc = "frontmatter"
    /\ content' = skip_frontmatter(content)
    /\ pc' = "write_title"
    /\ UNCHANGED <<env, outExists, fs_out, wbuf, pending, outOpen, inOpen,
                   files, filename, raw, title, adjusted_content, sections,
                   prior, outOpens, runs, results, err>>

\* lines 33-34
WriteTitle ==
    /\ pc = "write_title"
    /\ title' = make_title(filename)
    /\ LET w == write(io, heading(title'), diskLimit, bufSize)
       IN w.ok /\ Becomes(w)
    /\ sections' = Append(sections, filename)
    /\ pc' = "write_content"
    /\ UNCHANGED <<env, outExists, outOpen, inOpen, files, filename, raw,
                   content, adjusted_content, prior, outOpens, runs, results,
                   err>>

\* lines 33-34: outfile.write raises OSError
WriteTitleFail ==
    /\ pc = "write_title"
    /\ title' = make_title(filename)
    /\ LET w == write(io, heading(title'), diskLimit, bufSize)
       IN ~w.ok /\ Raise("write_title", w)
    /\ UNCHANGED <<env, files, filename, raw, content, adjusted_content,
                   sections, prior, outOpens, runs>>

\* lines 37-38
WriteContent ==
    /\ pc = "write_content"
    /\ adjusted_content' = adjust_header_levels(content)
    /\ LET w == write(io, adjusted_content', diskLimit, bufSize)
       IN w.ok /\ Becomes(w)
    /\ pc' = "write_sep"
    /\ UNCHANGED <<env, outExists, outOpen, inOpen, files, filename, raw,
                   content, title, sections, prior, outOpens, runs, results,
                   err>>

\* lines 37-38: outfile.write raises OSError
WriteContentFail ==
    /\ pc = "write_content"
    /\ adjusted_content' = adjust_header_levels(content)
    /\ LET w == write(io, adjusted_content', diskLimit, bufSize)
       IN ~w.ok /\ Raise("write_content", w)
    /\ UNCHANGED <<env, files, filename, raw, content, title, sections,
                   prior, outOpens, runs>>

\* line 39
WriteSep ==
    /\ pc = "write_sep"
    /\ LET w == write(io, <<"\n","\n">>, diskLimit, bufSize)
       IN w.ok /\ Becomes(w)
    /\ pc' = "close_in"
    /\ UNCHANGED <<env, locals, outExists, outOpen, inOpen, files, filename,
                   sections, prior, outOpens, runs, results, err>>

\* line 39: outfile.write raises OSError
WriteSepFail ==
    /\ pc = "write_sep"
    /\ LET w == write(io, <<"\n","\n">>, diskLimit, bufSize)
       IN ~w.ok /\ Raise("write_sep", w)
    /\ UNCHANGED <<env, locals, files, filename, sections, prior, outOpens,
                   runs>>

\* the end of the `with` of line 23
CloseInput ==
    /\ pc = "close_in"
    /\ inOpen' = infile_exit(inOpen)
    /\ pc' = "loop"
    /\ UNCHANGED <<env, locals, outExists, fs_out, wbuf, pending, outOpen,
                   files, filename, sections, prior, outOpens, runs, results,
                   err>>

\* the for loop of line 20 is exhausted: the `with` of line 19 ends, its
\* outfile.close() puts the buffered text on disk, main() returns
CloseOutput ==
    /\ pc = "loop"
    /\ files = <<>>
    /\ LET c == close(io, diskLimit, bufSize)
       IN c.ok /\ Becomes(c)
    /\ outOpen' = outfile_exit(outOpen)
    /\ pc' = "done"
    /\ UNCHANGED outExists
    /\ results' = Append(results, Outcome("done", "none"))
    /\ UNCHANGED <<env, locals, inOpen, files, filename, sections,
                   prior, outOpens, runs, err>>

\* the for loop of line 20 is exhausted and the outfile.close() of the exit of
\* the `with` of line 19 raises OSError: the text did not all reach the disk
CloseOutputFail ==
    /\ pc = "loop"
    /\ files = <<>>
    /\ ~close(io, diskLimit, bufSize).ok
    /\ Raise("close", io)
    /\ UNCHANGED <<env, locals, files, filename, sections, prior, outOpens,
                   runs>>

\* lines 41-42: the script is run again, on the same directory
Rerun ==
    /\ pc \in {"done", "failed"}
    /\ runs < MaxRuns
    /\ runs' = runs + 1
    /\ pc' = "start"
    /\ prior' = [exists |-> outExists, text |-> fs_out]
    /\ files' = <<>>
    /\ filename' = <<>>
    /\ raw' = <<>>
    /\ content' = <<>>
    /\ title' = <<>>
    /\ adjusted_content' = <<>>
    /\ sections' = <<>>
    /\ outOpens' = 0
    /\ err' = "none"
    /\ UNCHANGED <<env, outExists, fs_out, wbuf, pending, outOpen, inOpen,
                   results>>

Next ==
    \/ OpenOutput
    \/ OpenOutputFail
    \/ ListDir
    \/ ListDirFail
    \/ Select
    \/ Skip
    \/ OpenInput
    \/ OpenInputFail
    \/ Read
    \/ ReadFail
    \/ SkipFrontmatter
    \/ WriteTitle
    \/ WriteTitleFail
    \/ WriteContent
    \/ WriteContentFail
    \/ WriteSep
    \/ WriteSepFail
    \/ CloseInput
    \/ CloseOutput
    \/ CloseOutputFail
    \/ Rerun

Spec == Init /\ [][Next]_vars

\* one run of main() in which no filesystem call fails
NextText ==
    \/ OpenOutput
    \/ ListDir
    \/ Select
    \/ Skip
    \/ OpenInput
    \/ Read
    \/ SkipFrontmatter
    \/ WriteTitle
    \/ WriteContent
    \/ WriteSep
    \/ CloseInput
    \/ CloseOutput

SpecText == InitText /\ [][NextText]_vars

---------------------------------------------------------------------------
(* Vocabulary of the properties, stated on the characters of a text and    *)
(* not through split and join.                                             *)

Newlines(s) == {i \in DOMAIN s : s[i] = "\n"}
LineCount(s) == Cardinality(Newlines(s)) + 1
\* the position of the k-th newline of s
NthNewline(s, k) ==
    CHOOSE i \in Newlines(s) : Cardinality({j \in Newlines(s) : j <= i}) = k
\* the k-th newline-separated line of s
Line(s, k) ==
    LET first == IF k = 1 THEN 1 ELSE NthNewline(s, k - 1) + 1
        last == IF k = LineCount(s) THEN Len(s) ELSE NthNewline(s, k) - 1
    IN SubSeq(s, first, last)

\* out is in: every line that begins with "#" has one more "#" in front, every
\* other line is the same, and there are as many lines
Demotes(out, in) ==
    /\ LineCount(out) = LineCount(in)
    /\ \A k \in 1..LineCount(in) :
          Line(out, k) = IF Len(Line(in, k)) > 0 /\ Line(in, k)[1] = "#"
                         THEN <<"#">> \o Line(in, k)
                         ELSE Line(in, k)

\* the positions a "---" starts at
DelimAt(s) == {i \in 1..(Len(s) - 2) : s[i] = "-" /\ s[i + 1] = "-" /\ s[i + 2] = "-"}

\* the positions after the first line at which a line of exactly "---" starts
ClosingLines(s) ==
    {i \in DelimAt(s) : /\ i > 3
                        /\ s[i - 1] = "\n"
                        /\ i + 3 <= Len(s)
                        /\ s[i + 3] = "\n"}
\* s opens with a line of exactly "---", a later line of exactly "---" closes
\* the block, and a body follows
HasFrontmatter(s) ==
    /\ Len(s) >= 4
    /\ Line(s, 1) = Delim
    /\ \E i \in ClosingLines(s) : i + 4 <= Len(s)
\* what follows the closing line of the frontmatter block
FrontmatterBody(s) ==
    LET closing == CHOOSE i \in ClosingLines(s) : \A j \in ClosingLines(s) : i <= j
    IN SubSeq(s, closing + 4, Len(s))

Suffix(s, n) == SubSeq(s, Len(s) - n + 1, Len(s))
\* the text main() has written to outfile in this run, on disk or buffered
Written == fs_out \o wbuf \o pending
isletter(c) == c \in Range(UpperCase) \cup Range(LowerCase)

\* the entries of the directory that are documents to aggregate
Documents ==
    {n \in DOMAIN dir : /\ Len(n) >= 3
                        /\ SubSeq(n, Len(n) - 2, Len(n)) = <<".","m","d">>
                        /\ n # <<"i","n","d","e","x",".","m","d">>}

---------------------------------------------------------------------------
(* C1: for the directory holding a-doc.md ("# A\nhello"), b-doc.md         *)
(* ("---\ntitle: x\n---\n# B\nworld") and index.md, a completed run leaves *)
(* AGENTS.md with exactly "## A Doc\n\n## A\nhello\n\n## B Doc\n\n## B\n   *)
(* world\n\n".                                                             *)

ExampleDir == [n \in {ADoc, BDoc, IndexName} |-> Pool[n]]
ExampleOutput ==
    <<"#","#"," ","A"," ","D","o","c","\n","\n",
      "#","#"," ","A","\n","h","e","l","l","o","\n","\n",
      "#","#"," ","B"," ","D","o","c","\n","\n",
      "#","#"," ","B","\n","w","o","r","l","d","\n","\n">>

C1_EndToEndExample ==
    (dirExists /\ dir = ExampleDir /\ pc = "done") => fs_out = ExampleOutput

---------------------------------------------------------------------------
(* C2: the sections a completed run wrote are, in order, the ascending     *)
(* list of the entries whose name ends with ".md" and is not "index.md":   *)
(* one section each, in sorted order, and never a section for any other    *)
(* entry.                                                                  *)

C2_SectionsAreSortedDocuments ==
    /\ Range(sections) \subseteq Documents
    /\ \A i, j \in DOMAIN sections : i < j => str_lt(sections[i], sections[j])
    /\ pc = "done" => Range(sections) = Documents

C2_Witness ==
    /\ pc = "done"
    /\ Len(sections) >= 2
    /\ IndexName \in DOMAIN dir

---------------------------------------------------------------------------
(* C3: for a file with a valid frontmatter block (a first line of exactly  *)
(* "---", metadata lines, a closing line of exactly "---", the body), the  *)
(* section written is the heading, a blank line and the demoted body only: *)
(* nothing of the block is left, not even of its closing line.             *)

C3_FrontmatterAbsent ==
    (pc = "write_sep" /\ HasFrontmatter(dir[filename].content))
        => /\ Demotes(adjusted_content, FrontmatterBody(dir[filename].content))
           /\ endswith(Written, heading(title) \o adjusted_content)

---------------------------------------------------------------------------
(* C4: for a file whose first line is not exactly "---", what is written   *)
(* between the heading and the separator is the file's content with its    *)
(* headers demoted, and nothing removed.                                   *)

C4_NoFrontmatterNothingRemoved ==
    (pc = "write_sep" /\ Line(dir[filename].content, 1) # Delim)
        => /\ Demotes(adjusted_content, dir[filename].content)
           /\ endswith(Written, heading(title) \o adjusted_content)

---------------------------------------------------------------------------
(* C5: the heading written for a filename.                                 *)

\* the filename without its ".md"
Stem(name) == SubSeq(name, 1, Len(name) - 3)

\* C5 as stated: "## ", the filename without its extension with every
\* hyphen replaced by a space and the first letter of each space-separated
\* word capitalized, nothing else altered, and a blank line.
C5_TitleAltersOnlyFirstLetters ==
    pc = "write_content" =>
        LET stem == Stem(filename)
            t == [i \in 1..Len(stem) |->
                    IF stem[i] = "-" THEN " "
                    ELSE IF i = 1 \/ stem[i - 1] = "-" THEN upper(stem[i])
                    ELSE stem[i]]
        IN Suffix(Written, Len(stem) + 5) = <<"#","#"," ">> \o t \o <<"\n","\n">>

\* C5, amended: "## ", a blank line after it, and between them the filename
\* up to its last dot (the whole filename when only dots precede that dot)
\* with every hyphen replaced by a space, every letter that does not follow
\* a letter uppercased and every letter that follows a letter lowercased.
C5_TitleIsTitleCase ==
    pc = "write_content" =>
        LET stem == IF \E k \in 1..(Len(filename) - 3) : filename[k] # "."
                    THEN Stem(filename) ELSE filename
            t == [i \in 1..Len(stem) |->
                    IF stem[i] = "-" THEN " "
                    ELSE IF ~isletter(stem[i]) THEN stem[i]
                    ELSE IF i > 1 /\ isletter(stem[i - 1]) THEN lower(stem[i])
                    ELSE upper(stem[i])]
        IN Suffix(Written, Len(stem) + 5) = <<"#","#"," ">> \o t \o <<"\n","\n">>

C5_Witness ==
    /\ pc = "write_content"
    /\ filename = <<"a","-","B",".","m","d">>
    /\ Written = <<"#","#"," ","A"," ","B","\n","\n">>

---------------------------------------------------------------------------
(* C6: adjust_header_levels returns as many lines, in the same order; each *)
(* line that begins with "#" has exactly one more "#" in front, and every  *)
(* other line is unchanged.                                                *)

C6_HeadersDemoted ==
    pc = "write_sep" => Demotes(adjusted_content, content)

C6_Witness ==
    /\ pc = "write_sep"
    /\ content = <<"#","#","\n","a","#">>
    /\ adjusted_content = <<"#","#","#","\n","a","#">>

---------------------------------------------------------------------------
(* C7: two completed runs on the same directory leave AGENTS.md with the   *)
(* same content, whatever it held before the first: the second run         *)
(* truncates and rewrites, it does not append.                             *)

C7_RerunSameOutput ==
    \A i, j \in DOMAIN results :
        (results[i].status = "done" /\ results[j].status = "done")
            => /\ results[i].text = results[j].text
               /\ results[i].exists /\ results[j].exists

C7_Witness ==
    /\ Len(results) = 2
    /\ results[1].status = "done" /\ results[2].status = "done"
    /\ results[1].before = OldFile
    /\ Len(results[2].before.text) > Len(OldFile.text)
    /\ results[2].text = results[2].before.text

---------------------------------------------------------------------------
(* C8: for content that begins with "---": when splitting on "---" gives   *)
(* more than two parts, what is kept is exactly the text after the second  *)
(* "---", every later "---" in place; when it gives two parts or fewer,    *)
(* the content is unchanged and nothing is raised.                         *)

C8_KeepsTextAfterSecondDelimiter ==
    (pc = "write_title" /\ startswith(raw, Delim)) =>
        LET later == {i \in DelimAt(raw) : i > 3}
        IN /\ err = "none"
           /\ IF Len(split(raw, Delim)) > 2
              THEN /\ later # {}
                   /\ LET second == CHOOSE i \in later : \A j \in later : i <= j
                      IN content = SubSeq(raw, second + 3, Len(raw))
              ELSE later = {} /\ content = raw

C8_Witness ==
    /\ pc = "write_title"
    /\ raw = <<"-","-","-","-","-","-","a","-","-","-","a">>
    /\ content = <<"a","-","-","-","a">>

---------------------------------------------------------------------------
(* C9: the directory is listed before AGENTS.md is opened and truncated,   *)
(* so a run that fails because the directory does not exist leaves         *)
(* AGENTS.md, or its absence, as it was.                                   *)

C9_MissingDirLeavesOutput ==
    (pc = "failed" /\ err = "listdir")
        => /\ outOpens = 0
           /\ outExists = prior.exists
           /\ fs_out = prior.text

---------------------------------------------------------------------------
(* C10: when a run has ended, normally or by an error of any step, outfile *)
(* is closed and no infile is open; during a run outfile is opened once    *)
(* and stays open, and at most one infile is open, each closed before the  *)
(* next is opened.                                                         *)

C10_HandlesReleased ==
    /\ pc \in {"done", "failed"} => (~outOpen /\ inOpen = {})
    /\ Cardinality(inOpen) <= 1
    /\ outOpens <= 1
    /\ pc \notin {"start", "done", "failed"} => (outOpen /\ outOpens = 1)
    /\ pc \in {"loop", "open_in"} => inOpen = {}

C10_Witness ==
    /\ pc = "failed"
    /\ err = "close"
    /\ Len(sections) = 2
    /\ ~outOpen /\ inOpen = {}

=============================================================================
